---- MODULE Spec2Model ----
(***************************************************************************)
(* Model of the to_method crate (src/src/lib.rs): the extension trait To   *)
(* with its two provided methods, to and try_to, which forward to          *)
(* core::convert::Into::into and core::convert::TryInto::try_into.         *)
(*                                                                         *)
(* Values are unsigned integers of the widths the crate's documentation    *)
(* uses (u8, u16, u32), kept as little-endian byte strings so that every   *)
(* width is exact.  Callers are independent threads; a call is an          *)
(* invocation step (the receiver is moved into the method) followed by a   *)
(* return step (the forwarded conversion's value is handed back).          *)
(***************************************************************************)
EXTENDS Integers, Sequences, FiniteSets, TLC

VARIABLES pc, frame, result

vars == <<pc, frame, result>>

----------------------------------------------------------------------------
(* Bounds of the model.                                                    *)

\* Sampled inputs lie within Edge of each width boundary (0, 2^8, 2^16).
Edge == 1

Threads == {"t1", "t2"}

\* numbers within Edge of 0, of 2^8 and of 2^16 - 1, and the documentation's 5
\* and 300
SampleNums ==
    (0..Edge) \cup ((255 - Edge)..(256 + Edge)) \cup ((65535 - Edge)..65535)
        \cup {5, 300}

----------------------------------------------------------------------------
(* Types and values.                                                       *)

Types == {"u8", "u16", "u32"}

Byte == 0..255

\* core::mem::size_of::<ty>()
SizeOf(ty) == CASE ty = "u8" -> 1 [] ty = "u16" -> 2 [] ty = "u32" -> 4

ValuesOf(ty) == [1..SizeOf(ty) -> Byte]

\* ty::to_le_bytes of a number below 2^16 (all TLC needs to enumerate)
LeBytes(n, ty) ==
    [i \in 1..SizeOf(ty) |->
        CASE i = 1 -> n % 256 [] i = 2 -> (n \div 256) % 256 [] OTHER -> 0]

\* TRUE iff every byte above the n-th is zero, i.e. the value is < 2^(8n)
FitsIn(b, n) == \A i \in 1..Len(b) : i > n => b[i] = 0

\* numeric value of a byte string that fits in two bytes
Num(b) == b[1] + (IF Len(b) >= 2 THEN 256 * b[2] ELSE 0)

Typed(ty, b) == [ty |-> ty, val |-> b]

----------------------------------------------------------------------------
(* core::convert as the crate uses it.                                     *)

\* impl From<S> for T: the reflexive impl and the lossless widenings
ImplInto(S, T) ==
    \/ S = T
    \/ S = "u8"  /\ T \in {"u16", "u32"}
    \/ S = "u16" /\ T = "u32"

\* impl TryFrom<S> for T: through Into (Error = Infallible) or a narrowing
\* integer impl (Error = TryFromIntError)
ImplTryInto(S, T) ==
    \/ ImplInto(S, T)
    \/ S = "u16" /\ T = "u8"
    \/ S = "u32" /\ T \in {"u8", "u16"}

\* `self as T`: keep the low bytes, zero-fill the rest
AsCast(b, T) ==
    [i \in 1..SizeOf(T) |-> IF i <= Len(b) THEN b[i] ELSE 0]

\* <S as Into<T>>::into(v) = T::from(v): `v` itself or `v as T` (widening)
Into_into(S, T, v) ==
    IF S = T THEN Typed(T, v) ELSE Typed(T, AsCast(v, T))

Ok(tv)  == [tag |-> "Ok", ty |-> tv.ty, val |-> tv.val]
Err(e)  == [tag |-> "Err", ty |-> e, val |-> <<>>]
Val(tv) == [tag |-> "Val", ty |-> tv.ty, val |-> tv.val]

\* <S as TryInto<T>>::try_into(v) = T::try_from(v):
\*   where S: Into<T>           Ok(v.into())
\*   narrowing integer impl     if v > T::MAX as S { Err(TryFromIntError(())) }
\*                              else { Ok(v as T) }
TryInto_try_into(S, T, v) ==
    IF ImplInto(S, T)
    THEN Ok(Into_into(S, T, v))
    ELSE IF ~FitsIn(v, SizeOf(T))
         THEN Err("TryFromIntError")
         ELSE Ok(Typed(T, AsCast(v, T)))

----------------------------------------------------------------------------
(* The crate: trait To and its blanket impl.                               *)

\* Faulty variants of to, each a slip the forwarding could suffer.
\*   `self as u8 as T`: the receiver is cut to its low byte
to_truncating(S, T, v) == Typed(T, AsCast(AsCast(v, "u8"), T))

\*   `self as iN as T`: the widening copies the receiver's top bit
to_sign_extended(S, T, v) ==
    Typed(T, [i \in 1..SizeOf(T) |->
                IF i <= Len(v) THEN v[i]
                ELSE IF v[Len(v)] >= 128 THEN 255 ELSE 0])

\*   as to_sign_extended, for a one-byte receiver only
to_from_i8(S, T, v) ==
    IF S = "u8" THEN to_sign_extended(S, T, v) ELSE Into_into(S, T, v)

\*   the receiver is handed back as it is
to_unconverted(S, T, v) == Typed(S, v)

\*   a scratch value shared by all callers: zero when calls overlap
to_racy(S, T, v) ==
    IF Cardinality({u \in DOMAIN pc : pc[u] = "called"}) > 1
    THEN Typed(T, AsCast(<<0>>, T))
    ELSE Into_into(S, T, v)

\* fn to<T>(self) -> T where Self: Into<T>
to(S, T, v) == Into_into(S, T, v)

\* Faulty variants of try_to.
\*   `Ok(self as T)`: an unchecked cast in place of the checked conversion
try_to_wrapping(S, T, v) == Ok(Typed(T, AsCast(v, T)))

\*   `v >= T::MAX as S` in place of `v > T::MAX as S`
try_to_strict_bound(S, T, v) ==
    IF \/ ~FitsIn(v, SizeOf(T))
       \/ \A i \in 1..Len(v) : i <= SizeOf(T) => v[i] = 255
    THEN Err("TryFromIntError")
    ELSE Ok(Typed(T, AsCast(v, T)))

\*   every conversion to a wider type is refused
try_to_rejects_widening(S, T, v) ==
    IF SizeOf(S) < SizeOf(T)
    THEN Err("TryFromIntError")
    ELSE TryInto_try_into(S, T, v)

\* fn try_to<T>(self) -> Result<T, <Self as TryInto<T>>::Error>
try_to(S, T, v) == TryInto_try_into(S, T, v)

----------------------------------------------------------------------------
(* Callers.                                                                *)

\* inputs of the interleaved specification: boundary values of each type
SampleU8  == {LeBytes(n, "u8") : n \in {m \in SampleNums : m <= 255}}
SampleU16 == {LeBytes(n, "u16") : n \in SampleNums}
SampleU32 == {LeBytes(lo, "u16") \o LeBytes(hi, "u16") :
                 lo \in {0, 255, 256, 65535}, hi \in {0, 1, 65535}}

Sample(ty) ==
    CASE ty = "u8" -> SampleU8 [] ty = "u16" -> SampleU16 [] ty = "u32" -> SampleU32

\* inputs of the exhaustive specification: every u8 and every u16
EveryU8  == ValuesOf("u8")
EveryU16 == ValuesOf("u16")

Every(ty) ==
    CASE ty = "u8" -> EveryU8 [] ty = "u16" -> EveryU16 [] ty = "u32" -> {}

\* the receivers a caller draws from: D names the sampled or the exhaustive set
Receivers(D, ty) == IF D = "every" THEN Every(ty) ELSE Sample(ty)

NoFrame  == [op |-> "none", S |-> "u8", T |-> "u8", self |-> <<>>,
             x |-> Typed("u8", <<>>), depth |-> 0]
NoResult == [tag |-> "None", ty |-> "u8", val |-> <<>>]

Invoke(t, op, S, T, v) ==
    /\ pc' = [pc EXCEPT ![t] = "called"]
    /\ frame' = [frame EXCEPT ![t] =
            [op |-> op, S |-> S, T |-> T, self |-> v, x |-> Typed(S, v),
             depth |-> 1]]
    /\ UNCHANGED result

\* x.to::<T>()
CallTo(t, D) ==
    /\ pc[t] = "idle"
    /\ \E S \in Types, T \in Types :
        /\ ImplInto(S, T)
        /\ \E v \in Receivers(D, S) : Invoke(t, "to", S, T, v)

\* x.try_to::<T>()
CallTryTo(t, D) ==
    /\ pc[t] = "idle"
    /\ \E S \in Types, T \in Types :
        /\ ImplTryInto(S, T)
        /\ \E v \in Receivers(D, S) : Invoke(t, "try_to", S, T, v)

\* Into::<T>::into(x)
CallInto(t, D) ==
    /\ pc[t] = "idle"
    /\ \E S \in Types, T \in Types :
        /\ ImplInto(S, T)
        /\ \E v \in Receivers(D, S) : Invoke(t, "into", S, T, v)

\* TryInto::<T>::try_into(x)
CallTryInto(t, D) ==
    /\ pc[t] = "idle"
    /\ \E S \in Types, T \in Types :
        /\ ImplTryInto(S, T)
        /\ \E v \in Receivers(D, S) : Invoke(t, "try_into", S, T, v)

\* the value the call in frame f hands back
Eval(f) ==
    CASE f.op = "to"       -> Val(to(f.S, f.T, f.self))
      [] f.op = "into"     -> Val(Into_into(f.S, f.T, f.self))
      [] f.op = "try_to"   -> try_to(f.S, f.T, f.self)
      [] f.op = "try_into" -> TryInto_try_into(f.S, f.T, f.self)

Return(t) ==
    /\ pc[t] = "called"
    /\ result' = [result EXCEPT ![t] = Eval(frame[t])]
    /\ pc' = [pc EXCEPT ![t] = "returned"]
    /\ UNCHANGED frame

\* let y = x.to::<B>(); let z : C = y.to();
ChainTo(t) ==
    /\ pc[t] = "returned"
    /\ frame[t].op = "to"
    /\ frame[t].depth = 1
    /\ \E C \in Types :
        /\ ImplInto(result[t].ty, C)
        /\ frame' = [frame EXCEPT ![t] =
                [op |-> "to", S |-> result[t].ty, T |-> C,
                 self |-> result[t].val, x |-> frame[t].x, depth |-> 2]]
    /\ pc' = [pc EXCEPT ![t] = "called"]
    /\ result' = [result EXCEPT ![t] = NoResult]

\* the caller drops its values and is ready for another call
Finish(t) ==
    /\ pc[t] = "returned"
    /\ pc' = [pc EXCEPT ![t] = "idle"]
    /\ frame' = [frame EXCEPT ![t] = NoFrame]
    /\ result' = [result EXCEPT ![t] = NoResult]

Init ==
    /\ pc = [t \in Threads |-> "idle"]
    /\ frame = [t \in Threads |-> NoFrame]
    /\ result = [t \in Threads |-> NoResult]

Next ==
    \E t \in Threads :
        \/ CallTo(t, "sample")
        \/ CallTryTo(t, "sample")
        \/ CallInto(t, "sample")
        \/ CallTryInto(t, "sample")
        \/ Return(t)
        \/ ChainTo(t)
        \/ Finish(t)

Spec == Init /\ [][Next]_vars

\* one caller, every u8 and every u16 receiver
NextEvery ==
    \/ CallTo("t1", "every")
    \/ CallTryTo("t1", "every")
    \/ Return("t1")
    \/ Finish("t1")

SpecEvery == Init /\ [][NextEvery]_vars

----------------------------------------------------------------------------
(* Properties.                                                             *)

Returned(t, op) == pc[t] = "returned" /\ frame[t].op = op

SameCall(f, g) == f.S = g.S /\ f.T = g.T /\ f.self = g.self

IsValue(b, ty) == Len(b) = SizeOf(ty) /\ \A i \in 1..Len(b) : b[i] \in Byte

\* C1: whenever one caller has the value of v.to::<T>() and another the value
\* of Into::<T>::into(v) for the same v and T, the two values are the same.
C1_ToEqualsInto ==
    \A t \in Threads, u \in Threads :
        ( /\ Returned(t, "to")
          /\ Returned(u, "into")
          /\ SameCall(frame[t], frame[u]) )
        => result[t] = result[u]

C1_Witness ==
    /\ Returned("t1", "to") /\ Returned("t2", "into")
    /\ SameCall(frame["t1"], frame["t2"])
    /\ frame["t1"].S = "u16" /\ frame["t1"].T = "u32"
    /\ Num(frame["t1"].self) = 300

\* C2: whenever one caller has the result of v.try_to::<T>() and another the
\* result of TryInto::<T>::try_into(v) for the same v and T, the two results
\* are the same: both Ok with the same payload, or both the same Err.
C2_TryToEqualsTryInto ==
    \A t \in Threads, u \in Threads :
        ( /\ Returned(t, "try_to")
          /\ Returned(u, "try_into")
          /\ SameCall(frame[t], frame[u]) )
        => result[t] = result[u]

C2_Witness ==
    /\ Returned("t1", "try_to") /\ Returned("t2", "try_into")
    /\ SameCall(frame["t1"], frame["t2"])
    /\ frame["t1"].S = "u32" /\ frame["t1"].T = "u16"
    /\ result["t2"].tag = "Err"

\* C3: for every u16 v, v.try_to::<u8>() is Ok of the u8 numerically equal to
\* v when v <= 255 and is Err when v >= 256.
C3_U16TryToU8 ==
    \A t \in Threads :
        ( Returned(t, "try_to") /\ frame[t].S = "u16" /\ frame[t].T = "u8" )
        => IF Num(frame[t].self) <= 255
           THEN /\ result[t].tag = "Ok"
                /\ result[t].ty = "u8"
                /\ IsValue(result[t].val, "u8")
                /\ Num(result[t].val) = Num(frame[t].self)
           ELSE result[t].tag = "Err"

C3_Witness ==
    /\ Returned("t1", "try_to")
    /\ frame["t1"].S = "u16" /\ frame["t1"].T = "u8"
    /\ Num(frame["t1"].self) = 300
    /\ result["t1"].tag = "Err"

\* C4: for every u8 v, v.to::<u16>() is the u16 numerically equal to v.
C4_U8ToU16 ==
    \A t \in Threads :
        ( Returned(t, "to") /\ frame[t].S = "u8" /\ frame[t].T = "u16" )
        => /\ result[t].tag = "Val"
           /\ result[t].ty = "u16"
           /\ IsValue(result[t].val, "u16")
           /\ Num(result[t].val) = Num(frame[t].self)

C4_Witness ==
    /\ Returned("t1", "to")
    /\ frame["t1"].S = "u8" /\ frame["t1"].T = "u16"
    /\ Num(frame["t1"].self) = 200
    /\ Num(result["t1"].val) = 200

\* C5: v.to::<S>() on a v of type S is v, and v.try_to::<S>() is Ok(v).
C5_Identity ==
    \A t \in Threads :
        /\ ( Returned(t, "to") /\ frame[t].S = frame[t].T )
           => result[t] = Val(Typed(frame[t].S, frame[t].self))
        /\ ( Returned(t, "try_to") /\ frame[t].S = frame[t].T )
           => result[t] = Ok(Typed(frame[t].S, frame[t].self))

C5_Witness ==
    /\ Returned("t1", "to") /\ Returned("t2", "try_to")
    /\ frame["t1"].S = "u16" /\ frame["t1"].T = "u16"
    /\ frame["t2"].S = "u32" /\ frame["t2"].T = "u32"
    /\ Num(frame["t1"].self) = 300
    /\ ~FitsIn(frame["t2"].self, 2)

\* C6: whenever one caller has the value of x.to::<B>().to::<C>() and another
\* the value of x.to::<C>() for the same x, the two values are the same.
C6_Chained ==
    \A t \in Threads, u \in Threads :
        ( /\ Returned(t, "to") /\ frame[t].depth = 2
          /\ Returned(u, "to") /\ frame[u].depth = 1
          /\ frame[u].x = frame[t].x
          /\ frame[u].T = frame[t].T )
        => result[t] = result[u]

C6_Witness ==
    /\ Returned("t1", "to") /\ frame["t1"].depth = 2
    /\ Returned("t2", "to") /\ frame["t2"].depth = 1
    /\ frame["t1"].x = Typed("u8", <<255>>)
    /\ frame["t1"].S = "u16" /\ frame["t1"].T = "u32"
    /\ frame["t2"].x = frame["t1"].x /\ frame["t2"].T = "u32"

Alone(f) ==
    IF f.op \in {"to", "into"}
    THEN Val(Into_into(f.S, f.T, f.self))
    ELSE TryInto_try_into(f.S, f.T, f.self)

\* C8: under every interleaving of the callers, a call's result is the one it
\* gives alone, and two calls of the same operation with the same receiver and
\* target have the same result whatever ran before or between them.
C8_Stateless ==
    \A t \in Threads :
        pc[t] = "returned"
        => /\ result[t] = Alone(frame[t])
           /\ \A u \in Threads :
                ( /\ pc[u] = "returned"
                  /\ frame[u].op = frame[t].op
                  /\ SameCall(frame[t], frame[u]) )
                => result[u] = result[t]

C8_Witness ==
    /\ Returned("t1", "to") /\ Returned("t2", "to")
    /\ frame["t1"].depth = 2 /\ frame["t2"].depth = 1
    /\ SameCall(frame["t1"], frame["t2"])
    /\ frame["t1"].S = "u16" /\ frame["t1"].T = "u32"
    /\ Num(frame["t1"].self) = 255

\* C10: wherever to applies, try_to never gives Err, and whenever one caller
\* has the value of v.to::<T>() and another the result of v.try_to::<T>() for
\* the same v and T, that result is Ok of the same value.
C10_PathsAgree ==
    \A t \in Threads :
        ( Returned(t, "try_to") /\ ImplInto(frame[t].S, frame[t].T) )
        => /\ result[t].tag = "Ok"
           /\ \A u \in Threads :
                ( /\ Returned(u, "to")
                  /\ SameCall(frame[t], frame[u]) )
                => /\ result[t].ty = result[u].ty
                   /\ result[t].val = result[u].val

C10_Witness ==
    /\ Returned("t1", "try_to") /\ Returned("t2", "to")
    /\ SameCall(frame["t1"], frame["t2"])
    /\ frame["t1"].S = "u8" /\ frame["t1"].T = "u16"
    /\ frame["t1"].self = <<255>>

====
